---- MODULE Spec2Model ----
(***************************************************************************)
(* Model of Client.GetComponents (client package of StoneWork): the        *)
(* discovery call that joins the containers reported by docker with the    *)
(* status records served by StoneWork at /status/info.                     *)
(*                                                                         *)
(* Go strings that the code parses (environment entries, labels, names)    *)
(* are sequences of one-character strings, so that strings.HasPrefix and   *)
(* strings.TrimPrefix are computed rather than assumed.  Strings the code  *)
(* only copies or compares with "" (IDs, images, IP addresses) are TLA+    *)
(* strings.                                                                *)
(***************************************************************************)
EXTENDS Integers, Sequences, FiniteSets, TLC

\* ------------------------------------------------------------------ bounds
MaxContainers == 2      \* longest container listing
MaxInfos == 2           \* longest /status/info reply

\* --------------------------------------------------------------- constants
DockerComposeServiceLabel == "com.docker.compose.service"

MicroserviceLabelPrefix ==
    << "M","I","C","R","O","S","E","R","V","I","C","E","_","L","A","B","E","L","=" >>

ComponentAuxiliary == "ComponentAuxiliary"
ComponentStandalone == "ComponentStandalone"

\* error values returned by GetComponents ("nil" is the nil error)
ErrNil == "nil"
ErrHTTP == "HTTP request failed"
ErrDecode == "decoding reply failed"
ErrList == "ListContainers failed"
ErrInspect == "InspectContainer failed"
ErrClient == "NewClientWithOpts failed"

\* ------------------------------------------------------------ Go strings
\* a prefix test that leaves out the last character of the prefix
HasPrefixLoose(s, prefix) ==
    /\ Len(s) >= Len(prefix) - 1
    /\ SubSeq(s, 1, Len(prefix) - 1) = SubSeq(prefix, 1, Len(prefix) - 1)

HasPrefix(s, prefix) ==
    /\ Len(s) >= Len(prefix)
    /\ SubSeq(s, 1, Len(prefix)) = prefix

TrimPrefix(s, prefix) ==
    IF HasPrefix(s, prefix) THEN SubSeq(s, Len(prefix) + 1, Len(s)) ELSE s

\* ------------------------------------------------------- the environment
\* cnfreg.Info records the status endpoint can serve
Info1 == [MsLabel |-> <<"a">>, CnfMode |-> "STONEWORK_MODULE",
          IPAddr |-> "10.0.0.5", HTTPPort |-> 9191]
Info2 == [MsLabel |-> <<"a">>, CnfMode |-> "STONEWORK",
          IPAddr |-> "10.0.0.6", HTTPPort |-> 9192]
Info3 == [MsLabel |-> <<"b">>, CnfMode |-> "STONEWORK_MODULE",
          IPAddr |-> "10.0.0.5", HTTPPort |-> 9191]
InfoPool == {Info1, Info2, Info3}

\* zero value of cnfreg.Info (what a failed map lookup yields)
ZeroInfo == [MsLabel |-> <<>>, CnfMode |-> "UNSPECIFIED", IPAddr |-> "", HTTPPort |-> 0]

EnvLabel(v) == MicroserviceLabelPrefix \o v
EnvPath == << "P","A","T","H","=","a" >>
\* the prefix occurs, but not at the start of the entry
EnvNear == << "X" >> \o MicroserviceLabelPrefix \o << "a" >>
\* the variable name without the "=" sign
EnvShort == SubSeq(MicroserviceLabelPrefix, 1, Len(MicroserviceLabelPrefix) - 1) \o << "a" >>

NoNetworks == [n \in {} |-> ""]

\* docker.Container records the inspector can return, one per container ID
Cont1 == [ID |-> "id1", Name |-> "/web", Image |-> "nginx",
          Labels |-> (DockerComposeServiceLabel :> << "w","e","b" >>),
          Env |-> << EnvPath, EnvNear, EnvShort >>,
          IPAddress |-> "172.17.0.2",
          Networks |-> ("n1" :> "172.17.0.9")]
Cont2 == [ID |-> "id2", Name |-> "/cnf1", Image |-> "cnf",
          Labels |-> (DockerComposeServiceLabel :> << "c","1" >>),
          Env |-> << EnvPath, EnvLabel(<<"a">>) >>,
          IPAddress |-> "",
          Networks |-> ("n1" :> "10.0.0.9" @@ "n2" :> "10.0.1.9")]
Cont3 == [ID |-> "id3", Name |-> "/cnf3", Image |-> "cnf",
          Labels |-> (DockerComposeServiceLabel :> << "c","3" >>),
          Env |-> << EnvLabel(<<"z">>), EnvLabel(<<"a">>) >>,
          IPAddress |-> "",
          Networks |-> ("n1" :> "")]
Cont4 == [ID |-> "id4", Name |-> "/cnf4", Image |-> "cnf",
          Labels |-> [l \in {} |-> <<>>],
          Env |-> << EnvLabel(<<"b">>) >>,
          IPAddress |-> "",
          Networks |-> NoNetworks]
Cont5 == [ID |-> "id5", Name |-> "/cnf5", Image |-> "cnf",
          Labels |-> (DockerComposeServiceLabel :> << "c","5" >>),
          Env |-> << EnvLabel(<<"a">>), EnvLabel(<<"z">>) >>,
          IPAddress |-> "",
          Networks |-> ("n1" :> "" @@ "n2" :> "10.0.0.7")]
ContainerPool == {Cont1, Cont2, Cont3, Cont4, Cont5}

ContainerIDs == {c.ID : c \in ContainerPool}

\* hosts for which the management-client constructor may be unable to build a client
Hosts == {"", "10.0.0.6"}

\* sequences over S of length at most n
SeqsUpTo(S, n) == UNION {[1..k -> S] : k \in 0..n}

Injective(f) == \A x, y \in DOMAIN f : f[x] = f[y] => x = y

\* every order in which the elements of the finite set S can be visited
Orders(S) == {f \in [1..Cardinality(S) -> S] : Injective(f)}

VARIABLES
    statusReply,    \* the records /status/info serves, in reply order
    listing,        \* container IDs in the order ListContainers returns them
    badHosts,       \* hosts vppagent.NewClientWithOpts rejects
    pc,             \* position of the caller inside GetComponents
    infos,          \* local: result of StatusInfo
    containers,     \* local: inspected containers
    cnfInfos,       \* local: lookup table keyed by MsLabel
    components,     \* local: the list being built
    i,              \* local: index of the element the running range loop is at
    attempted,      \* IDs of the containers for which a client construction was attempted
    result,         \* what the current call returned
    prev            \* what the previous call fetched, inspected and returned

vars == << statusReply, listing, badHosts, pc, infos, containers,
           cnfInfos, components, i, attempted, result, prev >>

envVars == << statusReply, listing, badHosts >>

NoTable == [l \in {} |-> ZeroInfo]
NoResult == [components |-> <<>>, err |-> ErrNil]
NoPrev == [returned |-> FALSE, infos |-> <<>>, containers |-> <<>>, result |-> NoResult]

\* ------------------------------------------------------- pure functions
RECURSIVE containsPrefixFrom(_, _, _)
containsPrefixFrom(strs, prefix, k) ==
    IF k > Len(strs) THEN [after |-> <<>>, found |-> FALSE]
    ELSE IF HasPrefix(strs[k], prefix)
         THEN [after |-> TrimPrefix(strs[k], prefix), found |-> TRUE]
         ELSE containsPrefixFrom(strs, prefix, k + 1)

\* a search that keeps the last entry with the prefix instead of the first
RECURSIVE containsPrefixBack(_, _, _)
containsPrefixBack(strs, prefix, k) ==
    IF k < 1 THEN [after |-> <<>>, found |-> FALSE]
    ELSE IF HasPrefix(strs[k], prefix)
         THEN [after |-> TrimPrefix(strs[k], prefix), found |-> TRUE]
         ELSE containsPrefixBack(strs, prefix, k - 1)

containsPrefixLast(strs, prefix) == containsPrefixBack(strs, prefix, Len(strs))

containsPrefix(strs, prefix) == containsPrefixFrom(strs, prefix, 1)

\* a table in which the first record stored under a label is kept
RECURSIVE BuildCnfInfosFirst(_, _)
BuildCnfInfosFirst(table, records) ==
    IF records = <<>> THEN table
    ELSE LET info == Head(records)
             stored == [l \in (DOMAIN table) \cup {info.MsLabel} |->
                            IF l \in DOMAIN table THEN table[l] ELSE info]
         IN BuildCnfInfosFirst(stored, Tail(records))

\* cnfInfos after the loop that stores every fetched record under its MsLabel
RECURSIVE BuildCnfInfos(_, _)
BuildCnfInfos(table, records) ==
    IF records = <<>> THEN table
    ELSE LET info == Head(records)
             stored == [l \in (DOMAIN table) \cup {info.MsLabel} |->
                            IF l = info.MsLabel THEN info ELSE table[l]]
         IN BuildCnfInfos(stored, Tail(records))

\* a Go map lookup: the zero value for a missing key
LabelValue(labels, key) == IF key \in DOMAIN labels THEN labels[key] ELSE <<>>

\* a lookup whose ok result is not consulted
LookupAlwaysOk(table, label) ==
    IF label \in DOMAIN table THEN [info |-> table[label], ok |-> TRUE]
    ELSE [info |-> ZeroInfo, ok |-> TRUE]

Lookup(table, label) ==
    IF label \in DOMAIN table THEN [info |-> table[label], ok |-> TRUE]
    ELSE [info |-> ZeroInfo, ok |-> FALSE]

\* the range loop over container.NetworkSettings.Networks, visiting the
\* networks in the order the map iteration happens to produce
RECURSIVE NetworkIP(_, _, _)
NetworkIP(networks, order, k) ==
    IF k > Len(order) THEN ""
    ELSE IF networks[order[k]] # "" THEN networks[order[k]]
         ELSE NetworkIP(networks, order, k + 1)

\* a resolution that scans the networks before the primary address
ResolveIPNetworksFirst(container, order) ==
    IF NetworkIP(container.Networks, order, 1) # ""
    THEN NetworkIP(container.Networks, order, 1)
    ELSE container.IPAddress

ResolveIP(container, order) ==
    IF container.IPAddress # "" THEN container.IPAddress
    ELSE NetworkIP(container.Networks, order, 1)

BuildMetadata(container, order) ==
    LET base == ("containerID" :> container.ID)
                @@ ("containerName" :> container.Name)
                @@ ("containerServiceName" :>
                        LabelValue(container.Labels, DockerComposeServiceLabel))
                @@ ("dockerImage" :> container.Image)
        ip == ResolveIP(container, order)
    IN IF ip # "" THEN ("containerIPAddress" :> ip) @@ base ELSE base

\* mapping of the reported CNF mode to the component mode
cnfModeToCompoMode(cm) ==
    CASE cm = "STONEWORK_MODULE" -> "ComponentStoneworkModule"
      [] cm = "STONEWORK" -> "ComponentStonework"
      [] OTHER -> "ComponentUnknown"

\* the component built for a container, before any client is constructed
NewComponent(container, table, order) ==
    LET metadata == BuildMetadata(container, order)
        cp == containsPrefix(container.Env, MicroserviceLabelPrefix)
        lk == Lookup(table, cp.after)
        service == LabelValue(container.Labels, DockerComposeServiceLabel)
    IN IF ~cp.found
       THEN [Name |-> service, Mode |-> ComponentAuxiliary, Metadata |-> metadata,
             Info |-> <<>>, agentclient |-> <<>>]
       ELSE IF lk.ok
       THEN [Name |-> lk.info.MsLabel, Mode |-> cnfModeToCompoMode(lk.info.CnfMode),
             Metadata |-> metadata, Info |-> << lk.info >>, agentclient |-> <<>>]
       ELSE [Name |-> service, Mode |-> ComponentStandalone, Metadata |-> metadata,
             Info |-> <<>>, agentclient |-> <<>>]

\* the options handed to vppagent.NewClientWithOpts for a labelled container
ClientOpts(container, table) ==
    LET lk == Lookup(table, containsPrefix(container.Env, MicroserviceLabelPrefix).after)
    IN [host |-> lk.info.IPAddr, port |-> lk.info.HTTPPort]

InspectContainer(id) == CHOOSE c \in ContainerPool : c.ID = id

\* ----------------------------------------------------------------- Init
Init ==
    /\ statusReply \in SeqsUpTo(InfoPool, MaxInfos)
    /\ listing \in {l \in SeqsUpTo(ContainerIDs, MaxContainers) : Injective(l)}
    /\ badHosts \in SUBSET Hosts
    /\ pc = "StatusInfo"
    /\ infos = <<>>
    /\ containers = <<>>
    /\ cnfInfos = NoTable
    /\ components = <<>>
    /\ i = 1
    /\ attempted = {}
    /\ result = NoResult
    /\ prev = NoPrev

\* GetComponents returns (comps, err)
Return(comps, err) ==
    /\ result' = [components |-> comps, err |-> err]
    /\ pc' = "done"

\* -------------------------------------------------------------- actions
StatusInfoOK ==
    /\ pc = "StatusInfo"
    /\ infos' = statusReply
    /\ pc' = "ListContainers"
    /\ UNCHANGED << envVars, containers, cnfInfos, components, i, attempted, result, prev >>

StatusInfoFail ==
    /\ pc = "StatusInfo"
    /\ \E e \in {ErrHTTP, ErrDecode} : Return(<<>>, e)
    /\ UNCHANGED << envVars, infos, containers, cnfInfos, components, i, attempted, prev >>

ListContainersOK ==
    /\ pc = "ListContainers"
    /\ pc' = "Inspect"
    /\ i' = 1
    /\ UNCHANGED << envVars, infos, containers, cnfInfos, components, attempted, result, prev >>

ListContainersFail ==
    /\ pc = "ListContainers"
    /\ Return(<<>>, ErrList)
    /\ UNCHANGED << envVars, infos, containers, cnfInfos, components, i, attempted, prev >>

InspectOK ==
    /\ pc = "Inspect"
    /\ i <= Len(listing)
    /\ containers' = Append(containers, InspectContainer(listing[i]))
    /\ i' = i + 1
    /\ UNCHANGED << envVars, pc, infos, cnfInfos, components, attempted, result, prev >>

\* an inspection error that skips the container instead of ending the call
InspectFailSkip ==
    /\ pc = "Inspect"
    /\ i <= Len(listing)
    /\ i' = i + 1
    /\ UNCHANGED << envVars, pc, infos, containers, cnfInfos, components, attempted,
                    result, prev >>

InspectFail ==
    /\ pc = "Inspect"
    /\ i <= Len(listing)
    /\ Return(<<>>, ErrInspect)
    /\ UNCHANGED << envVars, infos, containers, cnfInfos, components, i, attempted, prev >>

BuildTable ==
    /\ pc = "Inspect"
    /\ i > Len(listing)
    /\ cnfInfos' = BuildCnfInfos(NoTable, infos)
    /\ pc' = "Classify"
    /\ i' = 1
    /\ UNCHANGED << envVars, infos, containers, components, attempted, result, prev >>

\* an Auxiliary component put in front of the components built so far
ClassifyAuxiliaryFront ==
    /\ pc = "Classify"
    /\ i <= Len(containers)
    /\ ~containsPrefix(containers[i].Env, MicroserviceLabelPrefix).found
    /\ \E order \in Orders(DOMAIN containers[i].Networks) :
           components' = << NewComponent(containers[i], cnfInfos, order) >> \o components
    /\ i' = i + 1
    /\ UNCHANGED << envVars, pc, infos, containers, cnfInfos, attempted, result, prev >>

\* one iteration of the loop over the inspected containers: no label variable
ClassifyAuxiliary ==
    /\ pc = "Classify"
    /\ i <= Len(containers)
    /\ ~containsPrefix(containers[i].Env, MicroserviceLabelPrefix).found
    /\ \E order \in Orders(DOMAIN containers[i].Networks) :
           components' = Append(components, NewComponent(containers[i], cnfInfos, order))
    /\ i' = i + 1
    /\ UNCHANGED << envVars, pc, infos, containers, cnfInfos, attempted, result, prev >>

\* one iteration: a label variable, and the client is constructed
ClassifyLabelled ==
    /\ pc = "Classify"
    /\ i <= Len(containers)
    /\ containsPrefix(containers[i].Env, MicroserviceLabelPrefix).found
    /\ ClientOpts(containers[i], cnfInfos).host \notin badHosts
    /\ attempted' = attempted \cup {containers[i].ID}
    /\ \E order \in Orders(DOMAIN containers[i].Networks) :
           components' = Append(components,
               [NewComponent(containers[i], cnfInfos, order) EXCEPT
                    !.agentclient = << ClientOpts(containers[i], cnfInfos) >>])
    /\ i' = i + 1
    /\ UNCHANGED << envVars, pc, infos, containers, cnfInfos, result, prev >>

\* one iteration: a label variable, and the client constructor fails
ClassifyClientFail ==
    /\ pc = "Classify"
    /\ i <= Len(containers)
    /\ containsPrefix(containers[i].Env, MicroserviceLabelPrefix).found
    /\ ClientOpts(containers[i], cnfInfos).host \in badHosts
    /\ attempted' = attempted \cup {containers[i].ID}
    /\ Return(components, ErrClient)
    /\ UNCHANGED << envVars, infos, containers, cnfInfos, components, i, prev >>

ReturnComponents ==
    /\ pc = "Classify"
    /\ i > Len(containers)
    /\ Return(components, ErrNil)
    /\ UNCHANGED << envVars, infos, containers, cnfInfos, components, i, attempted, prev >>

\* the caller calls GetComponents again: every local starts afresh
CallAgain ==
    /\ pc = "done"
    /\ prev' = [returned |-> TRUE, infos |-> infos, containers |-> containers,
                result |-> result]
    /\ pc' = "StatusInfo"
    /\ infos' = <<>>
    /\ containers' = <<>>
    /\ cnfInfos' = NoTable
    /\ components' = <<>>
    /\ i' = 1
    /\ attempted' = {}
    /\ result' = NoResult
    /\ UNCHANGED envVars

Next ==
    \/ StatusInfoOK
    \/ StatusInfoFail
    \/ ListContainersOK
    \/ ListContainersFail
    \/ InspectOK
    \/ InspectFail
    \/ BuildTable
    \/ ClassifyAuxiliary
    \/ ClassifyLabelled
    \/ ClassifyClientFail
    \/ ReturnComponents
    \/ CallAgain

Spec == Init /\ [][Next]_vars

\* ================================================================ claims
\* vocabulary of the claims, independent of the operators that model the code
Returned == pc = "done"

Output == result.components

StartsWithLabelVar(str) ==
    /\ Len(str) >= Len(MicroserviceLabelPrefix)
    /\ \A k \in 1..Len(MicroserviceLabelPrefix) : str[k] = MicroserviceLabelPrefix[k]

ValueOfEntry(str) ==
    [k \in 1..(Len(str) - Len(MicroserviceLabelPrefix)) |->
        str[k + Len(MicroserviceLabelPrefix)]]

LabelEntries(env) == {k \in 1..Len(env) : StartsWithLabelVar(env[k])}

LabelValues(env) == {ValueOfEntry(env[k]) : k \in LabelEntries(env)}

FirstLabelValue(env) ==
    ValueOfEntry(env[CHOOSE k \in LabelEntries(env) : \A j \in LabelEntries(env) : k <= j])

ServiceLabel(c) ==
    IF DockerComposeServiceLabel \in DOMAIN c.Labels
    THEN c.Labels[DockerComposeServiceLabel] ELSE <<>>

\* the container a component was built from, found by its containerID metadata
ContainerOf(compo) ==
    CHOOSE c \in ContainerPool : c.ID = compo.Metadata["containerID"]

NetworkIPs(c) == {c.Networks[n] : n \in DOMAIN c.Networks} \ {""}

\* the last record of the reply that carries the label
LastRecord(records, label) ==
    records[CHOOSE k \in 1..Len(records) :
                /\ records[k].MsLabel = label
                /\ \A j \in 1..Len(records) : records[j].MsLabel = label => j <= k]

ReplyLabels(records) == {records[k].MsLabel : k \in 1..Len(records)}

\* C1: every call ends either with a complete list and no error, or with an
\* error and an empty list; a partially populated list is never returned.
C1_AllOrNothing ==
    Returned =>
        \/ result.err = ErrNil /\ Len(Output) = Len(listing)
        \/ result.err # ErrNil /\ Output = <<>>

\* C2: a returned component carries a management-client handle only if its
\* container's label matched a status record; Auxiliary and Standalone
\* components never carry one, and no construction is attempted for a
\* container whose label has no entry in the status table.
C2_HandleOnlyWhenMatched ==
    Returned =>
        /\ \A k \in 1..Len(Output) :
              /\ Output[k].agentclient # <<>> =>
                    /\ LabelEntries(ContainerOf(Output[k]).Env) # {}
                    /\ FirstLabelValue(ContainerOf(Output[k]).Env) \in DOMAIN cnfInfos
              /\ Output[k].Mode \in {ComponentAuxiliary, ComponentStandalone} =>
                    Output[k].agentclient = <<>>
        /\ \A id \in attempted :
              LET c == CHOOSE c \in ContainerPool : c.ID = id
              IN /\ LabelEntries(c.Env) # {}
                 /\ FirstLabelValue(c.Env) \in DOMAIN cnfInfos

\* C3: a successful call returns exactly one component per listed container;
\* the empty fleet yields the empty list and no error.
C3_OneComponentPerContainer ==
    (Returned /\ result.err = ErrNil) => Len(Output) = Len(listing)

C3_Witness ==
    /\ Returned
    /\ result.err = ErrNil
    /\ Len(listing) = 2
    /\ Len(Output) = 2
    /\ \E k \in 1..2 : Output[k].Mode = ComponentAuxiliary
    /\ \E k \in 1..2 : Output[k].Mode # ComponentAuxiliary

\* C4 (as stated): a container with some MICROSERVICE_LABEL= entry whose value
\* is a key of the status table gets that entry as info, its label as name
\* and the mapped mode.
C4_MatchedAnyEntry ==
    Returned =>
        \A k \in 1..Len(Output) :
            \A v \in LabelValues(ContainerOf(Output[k]).Env) \cap DOMAIN cnfInfos :
                /\ Output[k].Info = << cnfInfos[v] >>
                /\ Output[k].Name = cnfInfos[v].MsLabel
                /\ Output[k].Mode = cnfModeToCompoMode(cnfInfos[v].CnfMode)

\* C4 (amended): a container whose FIRST MICROSERVICE_LABEL= entry has a value
\* that is a key of the status table gets that table entry as info, that
\* entry's label as name and the mapped mode of that entry.
C4_MatchedFirstEntry ==
    Returned =>
        \A k \in 1..Len(Output) :
            LET env == ContainerOf(Output[k]).Env
            IN (LabelEntries(env) # {} /\ FirstLabelValue(env) \in DOMAIN cnfInfos) =>
                  LET entry == cnfInfos[FirstLabelValue(env)]
                  IN /\ Output[k].Info = << entry >>
                     /\ Output[k].Name = entry.MsLabel
                     /\ Output[k].Name = FirstLabelValue(env)
                     /\ Output[k].Mode = cnfModeToCompoMode(entry.CnfMode)

C4_Witness ==
    /\ Returned
    /\ \E k \in 1..Len(Output) :
          /\ Cardinality(LabelEntries(ContainerOf(Output[k]).Env)) = 2
          /\ FirstLabelValue(ContainerOf(Output[k]).Env) \in DOMAIN cnfInfos
          /\ Output[k].Info # <<>>
          /\ Output[k].Mode = "ComponentStonework"

\* C5 (as stated): a container with some MICROSERVICE_LABEL= entry whose value
\* has no entry in the status table is Standalone, without info, named after
\* its service label.
C5_StandaloneAnyEntry ==
    Returned =>
        \A k \in 1..Len(Output) :
            (\E v \in LabelValues(ContainerOf(Output[k]).Env) : v \notin DOMAIN cnfInfos) =>
                /\ Output[k].Mode = ComponentStandalone
                /\ Output[k].Info = <<>>
                /\ Output[k].Name = ServiceLabel(ContainerOf(Output[k]))

\* C5 (amended): a container whose FIRST MICROSERVICE_LABEL= entry has a value
\* with no entry in the status table is Standalone, without info, named after
\* its service label.
C5_StandaloneFirstEntry ==
    Returned =>
        \A k \in 1..Len(Output) :
            LET c == ContainerOf(Output[k])
            IN (LabelEntries(c.Env) # {} /\ FirstLabelValue(c.Env) \notin DOMAIN cnfInfos) =>
                  /\ Output[k].Mode = ComponentStandalone
                  /\ Output[k].Info = <<>>
                  /\ Output[k].Name = ServiceLabel(c)

C5_Witness ==
    /\ Returned
    /\ cnfInfos # NoTable
    /\ \E k \in 1..Len(Output) :
          /\ LabelEntries(ContainerOf(Output[k]).Env) # {}
          /\ FirstLabelValue(ContainerOf(Output[k]).Env) \notin DOMAIN cnfInfos
          /\ Output[k].Mode = ComponentStandalone

\* C6: a container with no entry starting with MICROSERVICE_LABEL= is
\* Auxiliary, without info, named after its service label, whatever the
\* status table holds.
C6_AuxiliaryRule ==
    Returned =>
        \A k \in 1..Len(Output) :
            LET c == ContainerOf(Output[k])
            IN LabelEntries(c.Env) = {} =>
                  /\ Output[k].Mode = ComponentAuxiliary
                  /\ Output[k].Info = <<>>
                  /\ Output[k].Name = ServiceLabel(c)

C6_Witness ==
    /\ Returned
    /\ Len(statusReply) = 2
    /\ \E k \in 1..Len(Output) :
          /\ LabelEntries(ContainerOf(Output[k]).Env) = {}
          /\ Output[k].Mode = ComponentAuxiliary

\* C7: on success the k-th component is the one built from the k-th listed
\* container, whatever the classification of the components.
C7_OrderPreserved ==
    (Returned /\ result.err = ErrNil) =>
        /\ Len(Output) = Len(listing)
        /\ \A k \in 1..Len(Output) : Output[k].Metadata["containerID"] = listing[k]

C7_Witness ==
    /\ Returned
    /\ result.err = ErrNil
    /\ Len(Output) = 2
    /\ Output[1].Mode # ComponentAuxiliary
    /\ Output[2].Mode = ComponentAuxiliary
    /\ Output[2].Metadata["containerID"] = listing[2]

\* C8: two calls that fetched the same status records and inspected the same
\* container records return identical results.
C8_Deterministic ==
    ( /\ Returned
      /\ prev.returned
      /\ result.err \in {ErrNil, ErrClient}
      /\ prev.result.err \in {ErrNil, ErrClient}
      /\ prev.infos = infos
      /\ prev.containers = containers ) => result = prev.result

\* C9: containerIPAddress is the primary IP when that is non-empty, else a
\* non-empty IP of the network list, else the key is absent; the four other
\* metadata keys are always present.
C9_IPPrecedence ==
    Returned =>
        \A k \in 1..Len(Output) :
            LET c == ContainerOf(Output[k])
                md == Output[k].Metadata
            IN /\ {"containerID", "containerName", "containerServiceName", "dockerImage"}
                      \subseteq DOMAIN md
               /\ c.IPAddress # "" =>
                      /\ "containerIPAddress" \in DOMAIN md
                      /\ md["containerIPAddress"] = c.IPAddress
               /\ (c.IPAddress = "" /\ NetworkIPs(c) # {}) =>
                      /\ "containerIPAddress" \in DOMAIN md
                      /\ md["containerIPAddress"] \in NetworkIPs(c)
               /\ (c.IPAddress = "" /\ NetworkIPs(c) = {}) =>
                      "containerIPAddress" \notin DOMAIN md

C9_Witness ==
    /\ Returned
    /\ \E k \in 1..Len(Output) :
          /\ ContainerOf(Output[k]).IPAddress # ""
          /\ NetworkIPs(ContainerOf(Output[k])) # {}
          /\ Output[k].Metadata["containerIPAddress"] = ContainerOf(Output[k]).IPAddress
    /\ \E k \in 1..Len(Output) :
          /\ DOMAIN ContainerOf(Output[k]).Networks # {}
          /\ "containerIPAddress" \notin DOMAIN Output[k].Metadata

\* C10: the lookup table holds, for every label of the reply, the last record
\* carrying it, and a container with that label gets its info, mode and
\* management address from that last record.
C10_LastWriteWins ==
    pc \in {"Classify", "done"} =>
        /\ (pc = "Classify" \/ result.err \in {ErrNil, ErrClient}) =>
              /\ DOMAIN cnfInfos = ReplyLabels(infos)
              /\ \A l \in DOMAIN cnfInfos : cnfInfos[l] = LastRecord(infos, l)
        /\ Returned =>
              \A k \in 1..Len(Output) :
                  LET env == ContainerOf(Output[k]).Env
                  IN (LabelEntries(env) # {} /\ FirstLabelValue(env) \in ReplyLabels(infos)) =>
                        LET last == LastRecord(infos, FirstLabelValue(env))
                        IN /\ Output[k].Info = << last >>
                           /\ Output[k].Mode = cnfModeToCompoMode(last.CnfMode)
                           /\ Output[k].agentclient =
                                  << [host |-> last.IPAddr, port |-> last.HTTPPort] >>

C10_Witness ==
    /\ Returned
    /\ Len(infos) = 2
    /\ infos[1].MsLabel = infos[2].MsLabel
    /\ infos[1] # infos[2]
    /\ \E k \in 1..Len(Output) : Output[k].Info = << infos[2] >>

====
